---- MODULE Spec2Model ----
(***************************************************************************)
(* Model of the Bazarr launcher (src/bazarr/launcher.py): the supervisor   *)
(* that spawns one worker subprocess, polls the stop and restart sentinel  *)
(* files, and reacts to SIGINT through a Python signal handler.            *)
(*                                                                         *)
(* The main thread is a program counter over the statements of main(),     *)
(* check_status(), get_stop_status_code(), terminate_child(),              *)
(* start_bazarr() and exit_program().  A Python signal handler runs in the *)
(* main thread between two bytecodes, so the handler is one atomic action  *)
(* enabled at every program point; an exception it raises unwinds from the *)
(* statement the main thread is at, through the try/except/finally blocks  *)
(* that enclose that statement.                                            *)
(*                                                                         *)
(* exitCode is the argument of the SystemExit that ends the process (the   *)
(* value exit_program prints), 1 for an uncaught exception, 130 for a      *)
(* KeyboardInterrupt raised before the handler is installed.               *)
(*                                                                         *)
(* Spec is the supervisor with its environment (the worker, whoever writes *)
(* the sentinel files, and SIGINT); SpecFair adds that the main thread     *)
(* keeps running and that a signalled worker eventually exits.             *)
(***************************************************************************)
EXTENDS Integers, Sequences, FiniteSets, TLC

\* ---------------------------------------------------------------- literals
\* bazarr/literals.py
EXIT_NORMAL == 0
EXIT_INTERRUPT == -100
EXIT_PYTHON_UPGRADE_NEEDED == -103

\* ------------------------------------------------------------------ bounds
\* external creations, rewrites and removals of sentinel files
MaxFileOps == 2
\* os.remove calls that fail while the file exists (permission denied ...)
MaxRmFails == 1
\* interrupt deliveries that find the worker gone and raise SystemExit
MaxForced == 2

\* ------------------------------------------------------------------ inputs
\* sys.platform, by the prefix is_process_running() tests; "other" is any
\* platform not in its table (freebsd, cygwin, ...); "darwin" takes the same
\* path as "linux" (both list processes with ps)
Platforms == {"linux", "win", "other"}

\* platform.python_version_tuple(): <<major, minor>>
PyVersions == {<<2, 7>>, <<3, 7>>, <<3, 8>>, <<3, 13>>, <<4, 0>>}

\* contents of the stop-file, as sequences of characters
StopContents ==
    { <<>>,
      <<"7", "\n">>,
      <<"-", "3">>,
      <<" ", "1", "2", "\n", "x">>,
      <<"x", "\n", "5">> }

NoFile == [exists |-> FALSE, readable |-> TRUE, data |-> <<>>]

StopFiles ==
    { [exists |-> TRUE, readable |-> TRUE, data |-> d] : d \in StopContents }
    \cup { [exists |-> TRUE, readable |-> FALSE, data |-> <<"7", "\n">>] }

\* ------------------------------------------------------ file.readline / int
Whitespace == {" ", "\n", "\t", "\r"}

Digits == {"0", "1", "2", "3", "4", "5", "6", "7", "8", "9"}

DigitVal(c) ==
    CASE c = "0" -> 0 [] c = "1" -> 1 [] c = "2" -> 2 [] c = "3" -> 3
      [] c = "4" -> 4 [] c = "5" -> 5 [] c = "6" -> 6 [] c = "7" -> 7
      [] c = "8" -> 8 [] c = "9" -> 9

\* file.readline(): up to and including the first newline
RECURSIVE ReadLine(_)
ReadLine(data) ==
    IF data = <<>> THEN <<>>
    ELSE IF Head(data) = "\n" THEN <<"\n">>
    ELSE <<Head(data)>> \o ReadLine(Tail(data))

RECURSIVE LStrip(_)
LStrip(s) ==
    IF s # <<>> /\ Head(s) \in Whitespace THEN LStrip(Tail(s)) ELSE s

RECURSIVE RStrip(_)
RStrip(s) ==
    IF s # <<>> /\ s[Len(s)] \in Whitespace
    THEN RStrip(SubSeq(s, 1, Len(s) - 1)) ELSE s

\* digits with single underscores between them
DigitBodyOk(s) ==
    /\ s # <<>>
    /\ s[1] \in Digits
    /\ s[Len(s)] \in Digits
    /\ \A i \in 1..Len(s) : s[i] \in Digits \cup {"_"}
    /\ \A i \in 1..(Len(s) - 1) : ~(s[i] = "_" /\ s[i + 1] = "_")

RECURSIVE DigitsValue(_, _)
DigitsValue(s, acc) ==
    IF s = <<>> THEN acc
    ELSE IF Head(s) = "_" THEN DigitsValue(Tail(s), acc)
    ELSE DigitsValue(Tail(s), acc * 10 + DigitVal(Head(s)))

\* int(line): [ok |-> FALSE] stands for ValueError
PyInt(line) ==
    LET t == RStrip(LStrip(line))
        signed == t # <<>> /\ Head(t) \in {"+", "-"}
        body == IF signed THEN Tail(t) ELSE t
    IN  IF DigitBodyOk(body)
        THEN [ok |-> TRUE,
              val |-> IF signed /\ Head(t) = "-"
                      THEN 0 - DigitsValue(body, 0)
                      ELSE DigitsValue(body, 0)]
        ELSE [ok |-> FALSE, val |-> 0]

get_stop_status_code(f) ==
    IF ~f.exists \/ ~f.readable THEN EXIT_NORMAL
    ELSE LET r == PyInt(ReadLine(f.data))
         IN  IF r.ok THEN r.val ELSE EXIT_NORMAL

\* check_python_version(): TRUE when it calls exit_program
PythonTooOld(v) ==
    IF v[1] < 3 THEN TRUE
    ELSE IF v[1] = 3 /\ v[2] > 12 THEN FALSE
    ELSE (v[1] = 3 /\ v[2] < 8) \/ v[1] # 3

\* ------------------------------------------------------------------- state
VARIABLES
    platform,           \* sys.platform
    pc,                 \* statement the main thread is about to execute
    handlerInstalled,   \* signal.signal(SIGINT, _interrupt_handler) done
    envExported,        \* os.environ carries the two sentinel paths
    interrupted,        \* interrupted[0]
    child_process,      \* main()'s variable, read by the handler; 0 = unbound
    workers,            \* processes spawned so far; the index is the PID
    stop_file,          \* the stop-file on disk
    restart_file,       \* TRUE iff the restart-file exists
    stale,              \* per sentinel file: "stale" while the file left by a
                        \* previous run is on disk, "cleaned" from its removal
                        \* by the startup cleanup until the first worker handle
                        \* is returned, "none" otherwise
    status_code,        \* check_status()'s local
    branch,             \* "stop" / "restart": the if-block check_status is in
    pending,            \* an exception is pending while a finally block runs
    exit_arg,           \* exit_program()'s argument
    exitCode,           \* code the process ended with
    exitVia,            \* how the process ended
    printed,            \* codes printed by exit_program's status line
    fileOps,            \* external sentinel-file operations so far
    rmFails,            \* failed os.remove calls so far
    restartCreates,     \* times the restart-file was created
    observed,           \* what get_stop_status_code read in this run
    bothSeen,           \* the stop check found both sentinel files
    deleted,            \* os.remove outcome in this tick: "no"/"ok"/"failed"
    seenRestart,        \* the restart check of this tick found the file
    lateInterrupt,      \* a repeated interrupt arrived with the worker gone
    restarts,           \* poll ticks that found the restart-file
    forced              \* times the handler raised SystemExit(EXIT_INTERRUPT)

ctl == <<pc, branch, pending, exit_arg, status_code>>
proc == <<exitCode, exitVia, printed>>
sig == <<handlerInstalled, interrupted, forced>>
files == <<stop_file, restart_file, stale>>
counts == <<fileOps, rmFails, restartCreates>>
hist == <<observed, bothSeen, deleted, seenRestart, lateInterrupt, restarts>>
vars == <<platform, envExported, child_process, workers,
          ctl, proc, sig, files, counts, hist>>

Running == "running"
Zombie == "zombie"
Reaped == "reaped"

NewWorker == [st |-> Running, term |-> FALSE]

\* statements inside a try: or except: block that has a finally: block
TryRegion == {"stop_print", "stop_remove", "stop_except",
              "restart_print_deleting", "restart_remove", "restart_except"}

Init ==
    /\ platform \in Platforms
    /\ pc = "check_python_version"
    /\ handlerInstalled = FALSE
    /\ envExported = FALSE
    /\ interrupted = FALSE
    /\ child_process = 0
    /\ workers = <<>>
    /\ stop_file \in {NoFile, [exists |-> TRUE, readable |-> TRUE, data |-> <<"7", "\n">>]}
    /\ restart_file \in BOOLEAN
    /\ stale = [f \in {"stop", "restart"} |->
                 IF (f = "stop" /\ stop_file.exists) \/ (f = "restart" /\ restart_file)
                 THEN "stale" ELSE "none"]
    /\ status_code = EXIT_NORMAL
    /\ branch = "none"
    /\ pending = FALSE
    /\ exit_arg = EXIT_NORMAL
    /\ exitCode = 0
    /\ exitVia = "none"
    /\ printed = {}
    /\ fileOps = 0
    /\ rmFails = 0
    /\ restartCreates = 0
    /\ observed = NoFile
    /\ bothSeen = FALSE
    /\ deleted = "no"
    /\ seenRestart = FALSE
    /\ lateInterrupt = FALSE
    /\ restarts = 0
    /\ forced = 0

\* the sentinel file f is removed or replaced
Gone(f, by) ==
    [stale EXCEPT ![f] = IF @ = "stale" THEN by ELSE @]

\* the process ends: SystemExit(code) or an uncaught exception
Exit(code, via) ==
    /\ pc' = "exited"
    /\ exitCode' = code
    /\ exitVia' = via
    /\ UNCHANGED <<branch, pending, exit_arg, status_code, printed>>

\* ---------------------------------------------------------- exit_program
exit_program_print ==
    /\ pc = "exit_print"
    /\ pc' = "exit_raise"
    /\ printed' = printed \cup {exit_arg}
    /\ UNCHANGED <<branch, pending, exit_arg, status_code, exitCode, exitVia>>
    /\ UNCHANGED <<platform, envExported, child_process, workers, sig, files, counts, hist>>

\* raise SystemExit(status_code): it replaces a pending exception
exit_program_raise ==
    /\ pc = "exit_raise"
    /\ Exit(exit_arg, "exit_program")
    /\ UNCHANGED <<platform, envExported, child_process, workers, sig, files, counts, hist>>

\* ------------------------------------------------------------------ main
main_check_python_version ==
    /\ pc = "check_python_version"
    /\ \E v \in PyVersions :
         IF PythonTooOld(v)
         THEN /\ pc' = "exit_print"
              /\ exit_arg' = EXIT_PYTHON_UPGRADE_NEEDED
         ELSE /\ pc' = "signal_install"
              /\ UNCHANGED exit_arg
    /\ UNCHANGED <<branch, pending, status_code, proc>>
    /\ UNCHANGED <<platform, envExported, child_process, workers, sig, files, counts, hist>>

main_signal_install ==
    /\ pc = "signal_install"
    /\ pc' = "set_env"
    /\ handlerInstalled' = TRUE
    /\ UNCHANGED <<branch, pending, exit_arg, status_code, proc, interrupted, forced>>
    /\ UNCHANGED <<platform, envExported, child_process, workers, files, counts, hist>>

main_set_env ==
    /\ pc = "set_env"
    /\ pc' = "cleanup_restart"
    /\ envExported' = TRUE
    /\ UNCHANGED <<branch, pending, exit_arg, status_code, proc>>
    /\ UNCHANGED <<platform, child_process, workers, sig, files, counts, hist>>

\* try: os.remove(restart_file) except FileNotFoundError: pass
main_cleanup_restart ==
    /\ pc = "cleanup_restart"
    /\ \/ /\ pc' = "cleanup_stop"
          /\ restart_file' = FALSE
          /\ stale' = Gone("restart", "cleaned")
          /\ UNCHANGED <<branch, pending, exit_arg, status_code, proc, rmFails>>
       \/ /\ restart_file
          /\ rmFails < MaxRmFails
          /\ rmFails' = rmFails + 1
          /\ Exit(1, "traceback")
          /\ UNCHANGED <<restart_file, stale>>
    /\ UNCHANGED <<platform, envExported, child_process, workers, sig, stop_file,
                   fileOps, restartCreates, hist>>

\* a startup cleanup that leaves the stale stop-file in place
main_cleanup_stop_Skip ==
    /\ pc = "cleanup_stop"
    /\ pc' = "start_popen"
    /\ UNCHANGED <<branch, pending, exit_arg, status_code, proc>>
    /\ UNCHANGED <<platform, envExported, child_process, workers, sig, files, counts, hist>>

main_cleanup_stop ==
    /\ pc = "cleanup_stop"
    /\ \/ /\ pc' = "start_popen"
          /\ stop_file' = NoFile
          /\ stale' = Gone("stop", "cleaned")
          /\ UNCHANGED <<branch, pending, exit_arg, status_code, proc, rmFails>>
       \/ /\ stop_file.exists
          /\ rmFails < MaxRmFails
          /\ rmFails' = rmFails + 1
          /\ Exit(1, "traceback")
          /\ UNCHANGED <<stop_file, stale>>
    /\ UNCHANGED <<platform, envExported, child_process, workers, sig, restart_file,
                   fileOps, restartCreates, hist>>

\* time.sleep(5) returns; the next iteration calls check_status
main_sleep ==
    /\ pc = "sleep"
    /\ pc' = "cs_exists_stop"
    /\ UNCHANGED <<branch, pending, exit_arg, status_code, proc>>
    /\ UNCHANGED <<platform, envExported, child_process, workers, sig, files, counts, hist>>

\* except (KeyboardInterrupt, SystemExit, ChildProcessError): print(...)
main_except ==
    /\ pc = "except_print"
    /\ pc' = "exit_print"
    /\ exit_arg' = EXIT_INTERRUPT
    /\ UNCHANGED <<branch, pending, status_code, proc>>
    /\ UNCHANGED <<platform, envExported, child_process, workers, sig, files, counts, hist>>

\* ----------------------------------------------------------- start_bazarr
\* a restart that logs a failed spawn and goes back to polling
start_bazarr_popen_Ignore ==
    /\ pc = "start_popen"
    /\ \/ /\ workers' = Append(workers, NewWorker)
          /\ pc' = "start_print"
          /\ UNCHANGED <<branch, pending, exit_arg, status_code, proc>>
       \/ /\ child_process = 0
          /\ Exit(1, "traceback")
          /\ UNCHANGED workers
       \/ /\ child_process # 0
          /\ pc' = "sleep"
          /\ UNCHANGED <<branch, pending, exit_arg, status_code, proc, workers>>
    /\ UNCHANGED <<platform, envExported, child_process, sig, files, counts, hist>>

\* subprocess.Popen(...): the worker exists from here on, or Popen raises
start_bazarr_popen ==
    /\ pc = "start_popen"
    /\ \/ /\ workers' = Append(workers, NewWorker)
          /\ pc' = "start_print"
          /\ UNCHANGED <<branch, pending, exit_arg, status_code, proc>>
       \/ /\ Exit(1, "traceback")
          /\ UNCHANGED workers
    /\ UNCHANGED <<platform, envExported, child_process, sig, files, counts, hist>>

\* a restart whose new handle never reaches main's child_process
start_bazarr_return_KeepOld ==
    /\ pc = "start_print"
    /\ child_process' = IF child_process = 0 THEN Len(workers) ELSE child_process
    /\ pc' = IF child_process = 0 THEN "cs_exists_stop" ELSE "sleep"
    /\ pending' = FALSE
    /\ branch' = "none"
    /\ deleted' = "no"
    /\ seenRestart' = FALSE
    /\ stale' = [f \in {"stop", "restart"} |->
                  IF stale[f] = "cleaned" THEN "none" ELSE stale[f]]
    /\ UNCHANGED <<exit_arg, status_code, proc>>
    /\ UNCHANGED <<platform, envExported, workers, sig, stop_file, restart_file, counts>>
    /\ UNCHANGED <<observed, bothSeen, lateInterrupt, restarts>>

\* print(PID); return ep; the caller's chain stores it in main's
\* child_process.  A return inside finally: drops the pending exception.
start_bazarr_return ==
    /\ pc = "start_print"
    /\ child_process' = Len(workers)
    /\ pc' = IF child_process = 0 THEN "cs_exists_stop" ELSE "sleep"
    /\ pending' = FALSE
    /\ branch' = "none"
    /\ deleted' = "no"
    /\ seenRestart' = FALSE
    /\ stale' = [f \in {"stop", "restart"} |->
                  IF stale[f] = "cleaned" THEN "none" ELSE stale[f]]
    /\ UNCHANGED <<exit_arg, status_code, proc>>
    /\ UNCHANGED <<platform, envExported, workers, sig, stop_file, restart_file, counts>>
    /\ UNCHANGED <<observed, bothSeen, lateInterrupt, restarts>>

\* -------------------------------------------------------- terminate_child
terminate_child_print ==
    /\ pc = "tc_print"
    /\ pc' = "tc_poll"
    /\ UNCHANGED <<branch, pending, exit_arg, status_code, proc>>
    /\ UNCHANGED <<platform, envExported, child_process, workers, sig, files, counts, hist>>

\* if child_process.poll() is None: poll() reaps a worker that has exited
terminate_child_poll ==
    /\ pc = "tc_poll"
    /\ IF workers[child_process].st = Running
       THEN /\ pc' = "tc_terminate"
            /\ UNCHANGED workers
       ELSE /\ pc' = "tc_wait"
            /\ workers' = [workers EXCEPT ![child_process].st = Reaped]
    /\ UNCHANGED <<branch, pending, exit_arg, status_code, proc>>
    /\ UNCHANGED <<platform, envExported, child_process, sig, files, counts, hist>>

\* child_process.terminate(): send_signal polls first, then signals
terminate_child_terminate ==
    /\ pc = "tc_terminate"
    /\ pc' = "tc_wait"
    /\ workers' = IF workers[child_process].st = Running
                  THEN [workers EXCEPT ![child_process].term = TRUE]
                  ELSE [workers EXCEPT ![child_process].st = Reaped]
    /\ UNCHANGED <<branch, pending, exit_arg, status_code, proc>>
    /\ UNCHANGED <<platform, envExported, child_process, sig, files, counts, hist>>

\* a terminate_child that does not wait for the worker to exit
terminate_child_wait_NoWait ==
    /\ pc = "tc_wait"
    /\ IF branch = "stop"
       THEN /\ pc' = "exit_print"
            /\ exit_arg' = status_code
       ELSE /\ pc' = "restart_print"
            /\ UNCHANGED exit_arg
    /\ UNCHANGED <<branch, pending, status_code, proc>>
    /\ UNCHANGED <<platform, envExported, child_process, workers, sig, files, counts, hist>>

\* child_process.wait(): blocks until the worker has exited, reaps it, and
\* returns into the finally: block of check_status
terminate_child_wait ==
    /\ pc = "tc_wait"
    /\ workers[child_process].st # Running
    /\ workers' = [workers EXCEPT ![child_process].st = Reaped]
    /\ IF branch = "stop"
       THEN /\ pc' = "exit_print"
            /\ exit_arg' = status_code
       ELSE /\ pc' = "restart_print"
            /\ UNCHANGED exit_arg
    /\ UNCHANGED <<branch, pending, status_code, proc>>
    /\ UNCHANGED <<platform, envExported, child_process, sig, files, counts, hist>>

\* ----------------------------------------------------------- check_status
\* if os.path.exists(stop_file): the poll tick starts here
check_status_exists_stop ==
    /\ pc = "cs_exists_stop"
    /\ deleted' = "no"
    /\ seenRestart' = FALSE
    /\ IF stop_file.exists
       THEN /\ pc' = "get_stop_status_code"
            /\ branch' = "stop"
            /\ bothSeen' = restart_file
       ELSE /\ pc' = "cs_exists_restart"
            /\ UNCHANGED <<branch, bothSeen>>
    /\ UNCHANGED <<pending, exit_arg, status_code, proc, observed, lateInterrupt, restarts>>
    /\ UNCHANGED <<platform, envExported, child_process, workers, sig, files, counts>>

\* status_code = get_stop_status_code(stop_file)
check_status_get_code ==
    /\ pc = "get_stop_status_code"
    /\ status_code' = get_stop_status_code(stop_file)
    /\ observed' = stop_file
    /\ pc' = "stop_print"
    /\ UNCHANGED <<branch, pending, exit_arg, proc, bothSeen, deleted, seenRestart,
                   lateInterrupt, restarts>>
    /\ UNCHANGED <<platform, envExported, child_process, workers, sig, files, counts>>

\* try: print("Deleting stop file...")
check_status_stop_print ==
    /\ pc = "stop_print"
    /\ pc' = "stop_remove"
    /\ UNCHANGED <<branch, pending, exit_arg, status_code, proc>>
    /\ UNCHANGED <<platform, envExported, child_process, workers, sig, files, counts, hist>>

\* os.remove(stop_file): removes the file, or raises (the file has vanished,
\* or it cannot be removed and stays)
check_status_stop_remove ==
    /\ pc = "stop_remove"
    /\ \/ /\ stop_file.exists
          /\ stop_file' = NoFile
          /\ stale' = Gone("stop", "none")
          /\ deleted' = "ok"
          /\ pc' = "tc_print"
          /\ UNCHANGED rmFails
       \/ /\ ~stop_file.exists
          /\ deleted' = "failed"
          /\ pc' = "stop_except"
          /\ UNCHANGED <<stop_file, stale, rmFails>>
       \/ /\ stop_file.exists
          /\ rmFails < MaxRmFails
          /\ rmFails' = rmFails + 1
          /\ deleted' = "failed"
          /\ pc' = "stop_except"
          /\ UNCHANGED <<stop_file, stale>>
    /\ UNCHANGED <<branch, pending, exit_arg, status_code, proc>>
    /\ UNCHANGED <<observed, bothSeen, seenRestart, lateInterrupt, restarts, restart_file,
                   fileOps, restartCreates>>
    /\ UNCHANGED <<platform, envExported, child_process, workers, sig>>

\* except Exception: print('Unable to delete stop file.'), then finally:
check_status_stop_except ==
    /\ pc = "stop_except"
    /\ pc' = "tc_print"
    /\ UNCHANGED <<branch, pending, exit_arg, status_code, proc>>
    /\ UNCHANGED <<platform, envExported, child_process, workers, sig, files, counts, hist>>

\* a restart check that also respawns a worker found dead
check_status_exists_restart_Respawn ==
    /\ pc = "cs_exists_restart"
    /\ IF restart_file
       THEN /\ pc' = "restart_print_deleting"
            /\ branch' = "restart"
            /\ seenRestart' = TRUE
            /\ restarts' = restarts + 1
       ELSE /\ pc' = IF workers[child_process].st = Running
                     THEN "sleep" ELSE "start_popen"
            /\ UNCHANGED <<branch, seenRestart, restarts>>
    /\ UNCHANGED <<pending, exit_arg, status_code, proc, observed, bothSeen, deleted, lateInterrupt>>
    /\ UNCHANGED <<platform, envExported, child_process, workers, sig, files, counts>>

\* if os.path.exists(restart_file): else return child_process
check_status_exists_restart ==
    /\ pc = "cs_exists_restart"
    /\ IF restart_file
       THEN /\ pc' = "restart_print_deleting"
            /\ branch' = "restart"
            /\ seenRestart' = TRUE
            /\ restarts' = restarts + 1
       ELSE /\ pc' = "sleep"
            /\ UNCHANGED <<branch, seenRestart, restarts>>
    /\ UNCHANGED <<pending, exit_arg, status_code, proc, observed, bothSeen, deleted, lateInterrupt>>
    /\ UNCHANGED <<platform, envExported, child_process, workers, sig, files, counts>>

\* try: print("Deleting restart file...")
check_status_restart_print_deleting ==
    /\ pc = "restart_print_deleting"
    /\ pc' = "restart_remove"
    /\ UNCHANGED <<branch, pending, exit_arg, status_code, proc>>
    /\ UNCHANGED <<platform, envExported, child_process, workers, sig, files, counts, hist>>

\* os.remove(restart_file)
check_status_restart_remove ==
    /\ pc = "restart_remove"
    /\ \/ /\ restart_file
          /\ restart_file' = FALSE
          /\ stale' = Gone("restart", "none")
          /\ deleted' = "ok"
          /\ pc' = "tc_print"
          /\ UNCHANGED rmFails
       \/ /\ ~restart_file
          /\ deleted' = "failed"
          /\ pc' = "restart_except"
          /\ UNCHANGED <<restart_file, stale, rmFails>>
       \/ /\ restart_file
          /\ rmFails < MaxRmFails
          /\ rmFails' = rmFails + 1
          /\ deleted' = "failed"
          /\ pc' = "restart_except"
          /\ UNCHANGED <<restart_file, stale>>
    /\ UNCHANGED <<branch, pending, exit_arg, status_code, proc>>
    /\ UNCHANGED <<observed, bothSeen, seenRestart, lateInterrupt, restarts, stop_file,
                   fileOps, restartCreates>>
    /\ UNCHANGED <<platform, envExported, child_process, workers, sig>>

\* a failed deletion that gives the restart up and returns to the loop
check_status_restart_except_Skip ==
    /\ pc = "restart_except"
    /\ pc' = "sleep"
    /\ UNCHANGED <<branch, pending, exit_arg, status_code, proc>>
    /\ UNCHANGED <<platform, envExported, child_process, workers, sig, files, counts, hist>>

\* except Exception: print('Unable to delete restart file.'), then finally:
check_status_restart_except ==
    /\ pc = "restart_except"
    /\ pc' = "tc_print"
    /\ UNCHANGED <<branch, pending, exit_arg, status_code, proc>>
    /\ UNCHANGED <<platform, envExported, child_process, workers, sig, files, counts, hist>>

\* a restart that gives the new worker a fresh interrupt flag
check_status_restart_print_ResetFlag ==
    /\ pc = "restart_print"
    /\ pc' = "start_popen"
    /\ interrupted' = FALSE
    /\ UNCHANGED <<branch, pending, exit_arg, status_code, proc, handlerInstalled, forced>>
    /\ UNCHANGED <<platform, envExported, child_process, workers, files, counts, hist>>

\* finally: ... print("Bazarr is restarting..."), then start_bazarr
check_status_restart_print ==
    /\ pc = "restart_print"
    /\ pc' = "start_popen"
    /\ UNCHANGED <<branch, pending, exit_arg, status_code, proc>>
    /\ UNCHANGED <<platform, envExported, child_process, workers, sig, files, counts, hist>>

\* ------------------------------------------------------ is_process_running
\* The answers the process listing can give for a PID: ps lists running
\* processes and exited ones that were not waited for; tasklist lists
\* running processes, and may or may not list one that has exited while its
\* handle is still open; a platform outside the table answers False.
is_process_running(pid) ==
    IF platform \in {"linux", "darwin"}
    THEN {workers[pid].st \in {Running, Zombie}}
    ELSE IF platform = "win"
    THEN (IF workers[pid].st = Running THEN {TRUE}
          ELSE IF workers[pid].st = Zombie THEN BOOLEAN
          ELSE {FALSE})
    ELSE {FALSE}

\* -------------------------------------------------------- interrupt_handler
\* raise SystemExit(EXIT_INTERRUPT) at the statement the main thread is at
RaiseSystemExit ==
    IF pc \in TryRegion
    THEN /\ pc' = "tc_print"
         /\ pending' = TRUE
         /\ UNCHANGED <<branch, exit_arg, status_code, proc>>
    ELSE IF pc = "sleep"
    THEN /\ pc' = "except_print"
         /\ UNCHANGED <<branch, pending, exit_arg, status_code, proc>>
    ELSE Exit(EXIT_INTERRUPT, "SystemExit")

\* a handler that probes the worker with child_process.poll(), which reaps
\* a worker that has exited
interrupt_handler_Poll ==
    /\ handlerInstalled
    /\ pc # "exited"
    /\ IF child_process = 0
       THEN /\ Exit(1, "traceback")
            /\ UNCHANGED <<interrupted, forced, lateInterrupt, workers>>
       ELSE IF ~interrupted
       THEN /\ interrupted' = TRUE
            /\ UNCHANGED <<ctl, proc, forced, lateInterrupt, workers>>
       ELSE /\ lateInterrupt' = (lateInterrupt \/ workers[child_process].st # Running)
            /\ IF workers[child_process].st = Running
               THEN UNCHANGED <<ctl, proc, interrupted, forced, workers>>
               ELSE /\ forced < MaxForced
                    /\ forced' = forced + 1
                    /\ workers' = [workers EXCEPT ![child_process].st = Reaped]
                    /\ RaiseSystemExit
                    /\ UNCHANGED interrupted
    /\ UNCHANGED <<platform, envExported, child_process,
                   handlerInstalled, files, counts>>
    /\ UNCHANGED <<observed, bothSeen, deleted, seenRestart, restarts>>

\* _interrupt_handler evaluates main's child_process, then interrupt_handler
interrupt_handler ==
    /\ handlerInstalled
    /\ pc # "exited"
    /\ IF child_process = 0
       THEN /\ Exit(1, "traceback")
            /\ UNCHANGED <<interrupted, forced, lateInterrupt>>
       ELSE IF ~interrupted
       THEN /\ interrupted' = TRUE
            /\ UNCHANGED <<ctl, proc, forced, lateInterrupt>>
       ELSE /\ lateInterrupt' = (lateInterrupt \/ workers[child_process].st # Running)
            /\ \E running \in is_process_running(child_process) :
                 IF running
                 THEN UNCHANGED <<ctl, proc, interrupted, forced>>
                 ELSE /\ forced < MaxForced
                      /\ forced' = forced + 1
                      /\ RaiseSystemExit
                      /\ UNCHANGED interrupted
    /\ UNCHANGED <<platform, envExported, child_process, workers,
                   handlerInstalled, files, counts>>
    /\ UNCHANGED <<observed, bothSeen, deleted, seenRestart, restarts>>

\* SIGINT before signal.signal(SIGINT, ...) has run: Python's default handler
\* raises KeyboardInterrupt in the main thread; nothing catches it there and
\* the interpreter ends by SIGINT (status 130 to a shell)
default_int_handler ==
    /\ ~handlerInstalled
    /\ pc # "exited"
    /\ Exit(130, "KeyboardInterrupt")
    /\ UNCHANGED <<platform, envExported, child_process, workers, sig, files, counts, hist>>

\* ------------------------------------------------------------- environment
\* the worker exits: on its own, after SIGINT, or after the terminate signal
WorkerExit ==
    /\ pc # "exited"
    /\ \E w \in 1..Len(workers) :
         /\ workers[w].st = Running
         /\ workers' = [workers EXCEPT ![w].st = Zombie]
    /\ UNCHANGED <<platform, envExported, child_process, ctl, proc, sig, files, counts, hist>>

\* the worker or an operator writes the stop-file
WriteStop ==
    /\ pc # "exited"
    /\ fileOps < MaxFileOps
    /\ \E f \in StopFiles :
         /\ f # stop_file
         /\ stop_file' = f
    /\ stale' = Gone("stop", "none")
    /\ fileOps' = fileOps + 1
    /\ UNCHANGED <<platform, envExported, child_process, workers, ctl, proc, sig,
                   restart_file, rmFails, restartCreates, hist>>

RemoveStop ==
    /\ pc # "exited"
    /\ fileOps < MaxFileOps
    /\ stop_file.exists
    /\ stop_file' = NoFile
    /\ stale' = Gone("stop", "none")
    /\ fileOps' = fileOps + 1
    /\ UNCHANGED <<platform, envExported, child_process, workers, ctl, proc, sig,
                   restart_file, rmFails, restartCreates, hist>>

CreateRestart ==
    /\ pc # "exited"
    /\ fileOps < MaxFileOps
    /\ ~restart_file
    /\ restart_file' = TRUE
    /\ UNCHANGED stale
    /\ fileOps' = fileOps + 1
    /\ restartCreates' = restartCreates + 1
    /\ UNCHANGED <<platform, envExported, child_process, workers, ctl, proc, sig,
                   stop_file, rmFails, hist>>

RemoveRestart ==
    /\ pc # "exited"
    /\ fileOps < MaxFileOps
    /\ restart_file
    /\ restart_file' = FALSE
    /\ stale' = Gone("restart", "none")
    /\ fileOps' = fileOps + 1
    /\ UNCHANGED <<platform, envExported, child_process, workers, ctl, proc, sig,
                   stop_file, rmFails, restartCreates, hist>>

\* ----------------------------------------------------------- specification
Next ==
    \/ main_check_python_version
    \/ main_signal_install
    \/ main_set_env
    \/ main_cleanup_restart
    \/ main_cleanup_stop
    \/ main_sleep
    \/ main_except
    \/ start_bazarr_popen
    \/ start_bazarr_return
    \/ terminate_child_print
    \/ terminate_child_poll
    \/ terminate_child_terminate
    \/ terminate_child_wait
    \/ check_status_exists_stop
    \/ check_status_get_code
    \/ check_status_stop_print
    \/ check_status_stop_remove
    \/ check_status_stop_except
    \/ check_status_exists_restart
    \/ check_status_restart_print_deleting
    \/ check_status_restart_remove
    \/ check_status_restart_except
    \/ check_status_restart_print
    \/ exit_program_print
    \/ exit_program_raise
    \/ interrupt_handler
    \/ default_int_handler
    \/ WorkerExit
    \/ WriteStop
    \/ RemoveStop
    \/ CreateRestart
    \/ RemoveRestart

Spec == Init /\ [][Next]_vars

\* the statements of the main thread: the interpreter runs the next one
\* unless it is blocked in child_process.wait()
MainThread ==
    \/ main_check_python_version
    \/ main_signal_install
    \/ main_set_env
    \/ main_cleanup_restart
    \/ main_cleanup_stop
    \/ main_sleep
    \/ main_except
    \/ start_bazarr_popen
    \/ start_bazarr_return
    \/ terminate_child_print
    \/ terminate_child_poll
    \/ terminate_child_terminate
    \/ terminate_child_wait
    \/ check_status_exists_stop
    \/ check_status_get_code
    \/ check_status_stop_print
    \/ check_status_stop_remove
    \/ check_status_stop_except
    \/ check_status_exists_restart
    \/ check_status_restart_print_deleting
    \/ check_status_restart_remove
    \/ check_status_restart_except
    \/ check_status_restart_print
    \/ exit_program_print
    \/ exit_program_raise

\* a worker that was sent the termination signal exits
WorkerExitAfterTerm ==
    /\ pc # "exited"
    /\ \E w \in 1..Len(workers) :
         /\ workers[w].st = Running
         /\ workers[w].term
         /\ workers' = [workers EXCEPT ![w].st = Zombie]
    /\ UNCHANGED <<platform, envExported, child_process, ctl, proc, sig, files, counts, hist>>

\* the loop is scheduled fairly, and a signalled worker eventually exits
SpecFair ==
    /\ Init /\ [][Next]_vars
    /\ WF_vars(MainThread)
    /\ WF_vars(WorkerExitAfterTerm)

TypeOK ==
    /\ platform \in Platforms
    /\ interrupted \in BOOLEAN
    /\ child_process \in 0..Len(workers)
    /\ stop_file \in StopFiles \cup {NoFile}
    /\ restart_file \in BOOLEAN
    /\ stale \in [{"stop", "restart"} -> {"none", "stale", "cleaned"}]
    /\ deleted \in {"no", "ok", "failed"}
    /\ exitVia \in {"none", "exit_program", "SystemExit", "traceback",
                  "KeyboardInterrupt"}
    /\ (pc = "exited") = (exitVia # "none")

\* ------------------------------------------------------------------ claims
\* the stop-file read by get_stop_status_code holds an integer on line one
ParsesOk(f) == f.exists /\ f.readable /\ PyInt(ReadLine(f.data)).ok

Alive == {w \in 1..Len(workers) : workers[w].st = Running}

\* C1: when a poll tick has read a stop-file whose first line parses as the
\* integer N, the code the supervisor process ends with is N.
C1_ExitCodeIsStopCode ==
    (pc = "exited" /\ ParsesOk(observed))
        => exitCode = PyInt(ReadLine(observed.data)).val

\* C2: when a poll tick has read a stop-file that is empty, unreadable or
\* not an integer, the supervisor ends with EXIT_NORMAL and the worker
\* terminated, and it never goes back to polling.
C2_MalformedStopExitsNormal ==
    (observed.exists /\ ~ParsesOk(observed))
        => /\ pc \notin {"sleep", "cs_exists_stop", "cs_exists_restart"}
           /\ pc = "exited" =>
                /\ exitCode = EXIT_NORMAL
                /\ workers[child_process].st # Running

\* statements of the stop branch of check_status, up to the process end
StopPath == {"get_stop_status_code", "stop_print", "stop_remove", "stop_except",
             "tc_print", "tc_poll", "tc_terminate", "tc_wait",
             "exit_print", "exit_raise", "exited"}

\* C3: when the stop check of a tick found both sentinel files, the
\* supervisor is in the stop branch from then on (never in the restart
\* branch, never spawning, never back in the loop), and when it has exited
\* the worker has been terminated.
C3_StopWins ==
    bothSeen =>
        /\ branch = "stop"
        /\ pc \in StopPath
        /\ pc = "exited" => workers[child_process].st # Running

\* C4: at most one spawned worker is alive in every reachable state, and
\* when a restart is about to spawn, the old worker has exited and has been
\* waited for.
C4_AtMostOneAlive ==
    /\ Cardinality(Alive) <= 1
    /\ (pc \in {"restart_print", "start_popen"} /\ child_process # 0)
           => workers[child_process].st = Reaped

\* C4 witness: a third worker runs after two restarts, the first of which
\* had to signal a running worker.
C4_Witness ==
    /\ Len(workers) >= 3
    /\ Alive = {Len(workers)}
    /\ workers[1].term
    /\ workers[2].st = Reaped

\* C5: in the tick that observes a sentinel file, the termination signal is
\* sent only after the deletion attempt, and after a failed deletion the
\* supervisor is on the path that terminates the worker and then exits or
\* respawns.
C5_DeleteBeforeTerminate ==
    /\ (child_process # 0 /\ workers[child_process].term) => deleted # "no"
    /\ deleted = "failed" =>
           pc \in {"stop_except", "restart_except", "tc_print", "tc_poll",
                   "tc_terminate", "tc_wait", "restart_print", "start_popen",
                   "start_print", "exit_print", "exit_raise", "exited"}

\* C6: once a repeated interrupt has been delivered while the worker was not
\* running, the supervisor spawns no worker any more and, when it has
\* exited, its code is EXIT_INTERRUPT.
C6_LateInterruptExits ==
    /\ []((lateInterrupt /\ pc = "exited") => exitCode = EXIT_INTERRUPT)
    /\ [][lateInterrupt => Len(workers') = Len(workers)]_vars

\* C7: once a worker has been spawned, a first interrupt, and a repeated
\* interrupt delivered while the current worker is running, leave the
\* supervisor where it is, with the same current worker.
C7_InterruptSwallowed ==
    [][(interrupt_handler
          /\ Len(workers) >= 1
          /\ (~interrupted
                \/ (child_process # 0 /\ workers[child_process].st = Running)))
        => (pc' = pc /\ child_process' = child_process)]_vars

C9_ExitCodePrinted ==
    (pc = "exited" /\ exitVia \in {"exit_program", "SystemExit"})
        => exitCode \in printed

\* C10: when the supervisor has exited with EXIT_INTERRUPT, no worker it
\* spawned is running.
C10_NoOrphan ==
    (pc = "exited" /\ exitCode = EXIT_INTERRUPT) => Alive = {}

\* C11: every delivery of SIGINT to the installed handler finds main's
\* child_process bound to a worker handle, and none ends the supervisor with
\* an uncaught error.
C11_HandlerFindsHandle ==
    [][interrupt_handler
         => (child_process # 0 /\ exitVia' # "traceback")]_vars

\* C12: no os.remove of a sentinel file ends the supervisor, whether it
\* succeeds or fails: neither in the startup cleanup nor in a poll tick.
C12_DeleteFailureNotFatal ==
    [][(main_cleanup_restart \/ main_cleanup_stop
          \/ check_status_stop_remove \/ check_status_restart_remove)
        => pc' # "exited"]_vars

\* sentinel files on disk that were left by a previous run
StaleOnDisk == {f \in {"stop", "restart"} : stale[f] = "stale"}

\* C13: from the moment the initial worker is about to be spawned, no
\* sentinel file left by a previous run is on disk and the environment
\* carries the two sentinel paths; so no tick is in a branch for such a file.
C13_StaleNeverActedOn ==
    /\ (pc \in {"start_popen", "start_print"} \/ Len(workers) >= 1)
           => (StaleOnDisk = {} /\ envExported)
    /\ branch # "none" => StaleOnDisk = {}

\* C13 witness: both sentinel files were left by a previous run, the
\* startup cleanup removed them, and the initial worker has been spawned.
C13_Witness ==
    /\ pc = "start_print"
    /\ child_process = 0
    /\ Len(workers) = 1
    /\ stale["stop"] = "cleaned" /\ stale["restart"] = "cleaned"
    /\ ~stop_file.exists /\ ~restart_file
    /\ envExported

\* the loop is between two poll ticks, or at one of the two existence checks
PollPoints == {"sleep", "cs_exists_stop", "cs_exists_restart"}

\* C14: a worker is spawned only at startup or in a tick whose restart check
\* found the restart-file; a step of the loop that finds the worker dead and
\* no sentinel file neither spawns nor ends the process; and whenever the
\* loop is at a poll point, the spawns number one plus the ticks that found
\* the restart-file.
C14_SpawnsOnlyOnRestart ==
    /\ [](pc \in PollPoints => Len(workers) = 1 + restarts)
    /\ [][Len(workers') # Len(workers)
            => (child_process = 0 \/ (branch = "restart" /\ seenRestart))]_vars
    /\ [][((check_status_exists_stop \/ check_status_exists_restart \/ main_sleep)
              /\ Alive = {} /\ ~stop_file.exists /\ ~restart_file)
            => (pc' \in PollPoints /\ workers' = workers)]_vars

\* C14 witness: after one restart the second worker exited on its own, no
\* sentinel file exists, and the loop is polling with that dead worker.
C14_Witness ==
    /\ pc = "sleep"
    /\ Len(workers) = 2 /\ restarts = 1
    /\ child_process = 2
    /\ workers[2].st = Zombie /\ ~workers[2].term
    /\ ~stop_file.exists /\ ~restart_file

\* C15: a delivery of SIGINT, to the installed handler or to the default
\* one, leaves the current worker handle, every worker process, the two
\* sentinel files and the exported environment as they were.
C15_InterruptFrame ==
    [][(interrupt_handler \/ default_int_handler)
        => UNCHANGED <<child_process, workers, stop_file, restart_file,
                       envExported, handlerInstalled>>]_vars

\* C15 witness: a repeated interrupt raised SystemExit inside the restart
\* branch's try: block; the restart-file is still there and the exited
\* worker has not been reaped.
C15_Witness ==
    /\ interrupted /\ forced = 1
    /\ pc = "tc_print" /\ pending /\ branch = "restart"
    /\ restart_file
    /\ workers[child_process].st = Zombie

\* C16: the interrupt flag is false when the supervisor starts and as long
\* as no handler is installed, no step resets it once it is true, and every
\* delivery to the installed handler that the supervisor survives leaves it
\* true.
C16_FlagMonotone ==
    /\ ~interrupted
    /\ [](interrupted => handlerInstalled)
    /\ [][interrupted => interrupted']_vars
    /\ [][(interrupt_handler /\ pc' # "exited") => interrupted']_vars

\* C16 witness: the flag was set, a repeated interrupt was then swallowed by
\* a restart, and the loop polls with the second worker, the flag still set.
C16_Witness ==
    /\ interrupted /\ forced = 1
    /\ pc = "sleep"
    /\ Len(workers) = 2 /\ child_process = 2 /\ restarts = 1
    /\ workers[2].st = Running

\* C17: a step of subprocess.Popen that spawns no worker ends the
\* supervisor with a non-zero code while no worker is alive, and an ended
\* supervisor takes no further step.
C17_SpawnFailureFatal ==
    /\ [][(start_bazarr_popen /\ workers' = workers)
            => (pc' = "exited" /\ exitCode' # 0 /\ Alive = {})]_vars
    /\ [][pc = "exited" => (pc' = "exited" /\ workers' = workers)]_vars

\* C17 witness: the restart-file was deleted, the old worker was signalled
\* and waited for, and Popen then failed.
C17_Witness ==
    /\ pc = "exited" /\ exitVia = "traceback" /\ exitCode = 1
    /\ branch = "restart" /\ seenRestart /\ deleted = "ok"
    /\ Len(workers) = 1 /\ child_process = 1
    /\ workers[1].st = Reaped /\ workers[1].term

\* C18: under fair scheduling of the main thread, and provided a signalled
\* worker eventually exits, a stop-file that exists once a worker has been
\* spawned leads to the supervisor's exit unless it is removed before a tick
\* sees it; and while the stop handling waits for a worker that is still
\* running the supervisor stays in that wait: it neither exits nor polls.
C18_StopLeadsToExit ==
    /\ (Len(workers) >= 1 /\ stop_file.exists)
          ~> (pc = "exited" \/ (~stop_file.exists /\ branch # "stop"))
    /\ [][(pc = "tc_wait" /\ branch = "stop" /\ workers[child_process].st = Running)
            => pc' = "tc_wait"]_vars

\* the stop-file seen by the existence check was gone when it was read,
\* and the deletion has been attempted
VanishedBeforeRead == branch = "stop" /\ deleted # "no" /\ ~observed.exists

\* C19: once the stop check of a tick has found the stop-file, the
\* supervisor stays on the stop path whatever happens to the file; and when
\* the file had vanished before the read, the supervisor, once exited, has
\* exit code EXIT_NORMAL and its worker is not running, the failed deletion
\* notwithstanding.
C19_StopSurvivesFileRace ==
    /\ branch = "stop" => pc \in StopPath
    /\ (pc = "exited" /\ VanishedBeforeRead)
          => /\ workers[child_process].st # Running
             /\ exitCode = EXIT_NORMAL

\* statements of a restart tick after the deletion attempt
RestartPath == {"restart_except", "tc_print", "tc_poll", "tc_terminate", "tc_wait",
                "restart_print", "start_popen", "start_print"}

\* C20 (as stated): every tick whose restart check finds the restart-file
\* enters the restart branch, whatever happened in earlier ticks; a tick
\* whose deletion failed goes on to terminate the worker and spawn a new
\* one, and the supervisor does not end in it; when it returns to the loop
\* the old worker has been waited for and exactly one new worker is the
\* current handle; and at most one worker is alive at any time.
C20_RestartEveryTick ==
    /\ []((branch = "restart" /\ deleted = "failed") => pc \in RestartPath)
    /\ [](Cardinality(Alive) <= 1)
    /\ [][(check_status_exists_restart /\ restart_file)
            => (branch' = "restart" /\ pc' = "restart_print_deleting")]_vars
    /\ [][(pc = "start_print" /\ pc' = "sleep" /\ deleted = "failed")
            => /\ Len(workers) = child_process + 1
               /\ workers[child_process].st = Reaped
               /\ child_process' = Len(workers)]_vars

\* C20 (amended): as above, except that the tick may end the supervisor,
\* through the uncaught error of a failed spawn or through the SystemExit of
\* a repeated interrupt, and never through exit_program.
C20_RestartEveryTickOrEnd ==
    /\ []((branch = "restart" /\ deleted = "failed")
            => \/ pc \in RestartPath
               \/ pc = "exited" /\ exitVia \in {"traceback", "SystemExit"})
    /\ [](Cardinality(Alive) <= 1)
    /\ [][(check_status_exists_restart /\ restart_file)
            => (branch' = "restart" /\ pc' = "restart_print_deleting")]_vars
    /\ [][(pc = "start_print" /\ pc' = "sleep" /\ deleted = "failed")
            => /\ Len(workers) = child_process + 1
               /\ workers[child_process].st = Reaped
               /\ child_process' = Len(workers)]_vars

\* C20 witness: one restart-file, whose deletion failed once, has caused
\* two restarts; the third worker runs and the loop is polling.
C20_Witness ==
    /\ pc = "sleep"
    /\ restartCreates = 1 /\ rmFails = 1 /\ forced = 0
    /\ restarts = 2
    /\ Len(workers) = 3 /\ child_process = 3
    /\ workers[1].st = Reaped /\ workers[2].st = Reaped
    /\ workers[3].st = Running

====
